---------------------------- MODULE Spec2Model ----------------------------
(***************************************************************************)
(* A model of xlformula's composite tree (lib/composite.py, lib/call.py,   *)
(* lib/function.py, lib/formula.py), of its argument handler               *)
(* (lib/argument.py) and of its column codec (lib/reference.py).           *)
(*                                                                         *)
(* Text is a sequence of one-character strings.  The heap of composite     *)
(* objects is the sequence nodes; a node's identity is its index, and the  *)
(* index 0 stands for Python's None in an owner field.                     *)
(***************************************************************************)
EXTENDS Integers, Sequences, FiniteSets, TLC

VARIABLES
    nodes,       \* the heap of ExcelComposite objects, in order of creation
    result,      \* what the last builder operation returned or raised
    formulated,  \* how many times an expansion closure (formulate) has run
    cls,         \* the class last defined (the class object the metaclass built)
    declared,    \* the __requiredarguments__ / __optionalarguments__ it declared
    column,      \* the column index last handed to _alpha_column
    letters,     \* the text _alpha_column returned for it
    index,       \* what _numeric_column returned for that text
    compiled,    \* what the last compile / str of a node returned
    evaluated,   \* what the last get_value of a node returned or raised
    built,       \* the last reference built: its parameters and its string
    parsed,      \* what the parse functions returned for that string
    classes      \* the chain of classes defined, each a subclass of the one before

vars == <<nodes, result, formulated, cls, declared, column, letters, index,
          compiled, evaluated, built, parsed, classes>>

-----------------------------------------------------------------------------
(* Bounds of the model.                                                    *)

\* No builder operation starts once the heap holds MaxHeap objects.
MaxHeap == 3
\* The longest argument list handed to a call on the tree.
MaxArgs == 2
\* The longest declared __requiredarguments__ / __optionalarguments__ tuple.
MaxDeclared == 3
\* The largest number of arguments supplied to a declared class.
MaxSupplied == 4
\* The largest column index converted.
MaxColumn == 800

-----------------------------------------------------------------------------
(* Text helpers.                                                           *)

Range(s) == {s[i] : i \in 1..Len(s)}

Digit(d) == CASE d = 0 -> "0" [] d = 1 -> "1" [] d = 2 -> "2" [] d = 3 -> "3"
              [] d = 4 -> "4" [] d = 5 -> "5" [] d = 6 -> "6" [] d = 7 -> "7"
              [] d = 8 -> "8" [] d = 9 -> "9"

RECURSIVE NatStr(_)
NatStr(n) == IF n < 10 THEN <<Digit(n)>>
             ELSE NatStr(n \div 10) \o <<Digit(n % 10)>>

\* Python's str() of an int.
IntStr(i) == IF i < 0 THEN <<"-">> \o NatStr(0 - i) ELSE NatStr(i)

-----------------------------------------------------------------------------
(* Values: the primitives a caller passes, and the operands of an          *)
(* operation (a primitive or an existing node, possibly wrapped in a       *)
(* single-element tuple).                                                  *)

PNone    == [t |-> "None", s |-> <<>>, b |-> FALSE, i |-> 0]
PStr(s)  == [t |-> "str",  s |-> s,    b |-> FALSE, i |-> 0]
PBool(b) == [t |-> "bool", s |-> <<>>, b |-> b,     i |-> 0]
PInt(i)  == [t |-> "int",  s |-> <<>>, b |-> FALSE, i |-> i]
\* An ExcelReference object with the given name (lib/reference.py).
PRef(s)  == [t |-> "ref",  s |-> s,    b |-> FALSE, i |-> 0]

Raw(p)  == [tup |-> FALSE, isnode |-> FALSE, node |-> 0, prim |-> p]
Node(n) == [tup |-> FALSE, isnode |-> TRUE,  node |-> n, prim |-> PNone]
Tup(x)  == [x EXCEPT !.tup = TRUE]

NoValue == Raw(PNone)
NoClass == [name |-> <<>>, kind |-> "", required |-> <<>>, optional |-> <<>>]


-----------------------------------------------------------------------------
(* lib/composite.py: the operator table.                                   *)

\* _EXPRESSION_OPERATORS: dunder method name -> the operator's text.
_EXPRESSION_OPERATORS(op) ==
    CASE op = "__lt__"  -> <<"<">>
      [] op = "__le__"  -> <<"<", "=">>
      [] op = "__eq__"  -> <<"=">>
      [] op = "__ne__"  -> <<"<", ">">>
      [] op = "__gt__"  -> <<">">>
      [] op = "__ge__"  -> <<">", "=">>
      [] op = "__add__" -> <<"+">>
      [] op = "__sub__" -> <<"-">>
      [] op = "__mul__" -> <<"*">>
      [] op = "__div__" -> <<"/">>
      [] op = "__pow__" -> <<"^">>
      [] op = "__and__" -> <<"&">>

OperatorNames == {"__lt__", "__le__", "__eq__", "__ne__", "__gt__", "__ge__",
                  "__add__", "__sub__", "__mul__", "__div__", "__pow__",
                  "__and__"}

-----------------------------------------------------------------------------
(* lib/argument.py: declaring a class.  A declared __requiredarguments__   *)
(* or __optionalarguments__ is None, '...', one string, or a tuple whose   *)
(* items are names, None or '...'.  In a processed tuple an item is a name *)
(* or the string "...", which stands for Ellipsis.                         *)

Ellipsis == "..."
NoneItem == "<None>"

DNone     == [form |-> "None",     items |-> <<>>]
DEllipsis == [form |-> "Ellipsis", items |-> <<>>]
DStr(a)   == [form |-> "str",      items |-> <<a>>]
DTuple(t) == [form |-> "tuple",    items |-> t]

\* A variant of _funcargs_to_tuple that leaves None in the tuple (lines 65-69
\* dropped).
FuncargsKeepNone(args) ==
    CASE args.form = "None"     -> <<NoneItem>>
      [] args.form = "Ellipsis" -> <<Ellipsis>>
      [] args.form = "str"      -> args.items
      [] args.form = "tuple"    -> args.items

\* _funcargs_to_tuple
_funcargs_to_tuple(args) ==
    LET tuple == CASE args.form = "None"     -> <<NoneItem>>
                   [] args.form = "Ellipsis" -> <<Ellipsis>>
                   [] args.form = "str"      -> args.items
                   [] args.form = "tuple"    -> args.items
    IN  IF NoneItem \in Range(tuple)
        THEN [k \in 1..Len(tuple) |->
                 IF tuple[k] = NoneItem THEN Ellipsis ELSE tuple[k]]
        ELSE tuple

RECURSIVE ChainRequired(_), ChainOptional(_)
ChainRequired(bases) == IF bases = <<>> THEN <<>>
                        ELSE Head(bases).required \o ChainRequired(Tail(bases))
ChainOptional(bases) == IF bases = <<>> THEN <<>>
                        ELSE Head(bases).optional \o ChainOptional(Tail(bases))

\* ExcelArgumentHandlerType.__new__: the class object, with its processed
\* argument tuples.  __argumenthandlermethod__ is "" in every class of the
\* repository, so the block that reads a handler method's signature is skipped.
HandlerTypeNew(name, kind, required, optional, inherit, bases) ==
    LET req_args == _funcargs_to_tuple(required)
        opt_args == _funcargs_to_tuple(optional)
    IN  [name     |-> name,
         kind     |-> kind,
         required |-> IF inherit THEN ChainRequired(bases) \o req_args
                      ELSE req_args,
         optional |-> IF inherit THEN ChainOptional(bases) \o opt_args
                      ELSE opt_args]

\* ExcelArgumentHandlerType.is_openended
is_openended(c) ==
    Ellipsis \in Range(c.required) \/ Ellipsis \in Range(c.optional)

\* A variant of the check that rejects a full argument list (">=" for ">").
CheckArgumentsStrict(c, arg_count) ==
    LET req_count == IF Ellipsis \in Range(c.required) THEN arg_count
                     ELSE Len(c.required)
        opt_count == IF Ellipsis \in Range(c.optional) THEN arg_count
                     ELSE Len(c.optional)
    IN  IF req_count # 0 /\ arg_count < req_count THEN "TooFew"
        ELSE IF arg_count >= req_count + opt_count THEN "TooMany"
        ELSE "ok"

\* A variant of the check that counts '...' as one optional parameter.
CheckArgumentsClosed(c, arg_count) ==
    LET req_count == IF Ellipsis \in Range(c.required) THEN arg_count
                     ELSE Len(c.required)
        opt_count == Len(c.optional)
    IN  IF req_count # 0 /\ arg_count < req_count THEN "TooFew"
        ELSE IF arg_count > req_count + opt_count THEN "TooMany"
        ELSE "ok"

\* ExcelArgumentHandler.__new__, lines 228-258: the check of the argument
\* count; "ok" means the else branch (instantiate and handle) is taken.
CheckArguments(c, arg_count) ==
    LET req_args  == c.required
        opt_args  == c.optional
        req_count == IF Ellipsis \in Range(req_args) THEN arg_count
                     ELSE Len(req_args)
        opt_count == IF Ellipsis \in Range(opt_args) THEN arg_count
                     ELSE Len(opt_args)
    IN  IF req_count # 0 /\ arg_count < req_count THEN "TooFew"
        ELSE IF arg_count > req_count + opt_count THEN "TooMany"
        ELSE "ok"

-----------------------------------------------------------------------------
(* Classes of lib/builtin/_function.py and lib/builtin/_formula.py.         *)

IF_ == HandlerTypeNew(<<"I", "F">>, "Function",
           DTuple(<<"logical_test", "value_if_true">>),
           DTuple(<<"value_if_false">>), FALSE, <<>>)
SUM_ == HandlerTypeNew(<<"S", "U", "M">>, "Function",
           DTuple(<<"number1">>), DTuple(<<"number2", Ellipsis>>), FALSE, <<>>)
TRUE_ == HandlerTypeNew(<<"T", "R", "U", "E">>, "Function",
           DTuple(<<>>), DTuple(<<>>), FALSE, <<>>)
BlankIfBlank == HandlerTypeNew(<<"B", "l", "a", "n", "k", "I", "f", "B", "l", "a", "n", "k">>,
           "Formula", DTuple(<<"reference", "else">>), DTuple(<<>>), FALSE, <<>>)

\* The classes called on the tree.
TreeClasses == {IF_, TRUE_, BlankIfBlank}

-----------------------------------------------------------------------------
(* lib/composite.py, lib/call.py: the objects of the heap.                 *)

\* ExcelComposite.__init__ (_owner = None, _priority = False) and the fields
\* the subclasses' __init__ add.
NewObject(kind) ==
    [kind |-> kind, owner |-> 0, priority |-> FALSE, value |-> NoValue,
     former |-> 0, latter |-> 0, operator |-> "", caller |-> NoClass,
     arguments |-> <<>>]

\* ExcelArgument.__init__
ExcelArgument(value) == [NewObject("Argument") EXCEPT !.value = value]

\* ExcelComposite.is_master
is_master(h, n) == h[n].owner = 0

\* ExcelComposite.has_priority
has_priority(h, n) == h[n].priority

\* ExcelComposite.master
RECURSIVE master(_, _)
master(h, n) == IF h[n].owner = 0 THEN n ELSE master(h, h[n].owner)

\* _to_component: the heap after the cast, and the object it returns.  A
\* single-element tuple is no ExcelComponent, so it is stored whole as the
\* value of a new ExcelArgument.
_to_component(h, arg) ==
    IF arg.isnode /\ ~arg.tup
    THEN [heap |-> h, node |-> arg.node]
    ELSE [heap |-> Append(h, ExcelArgument(arg)), node |-> Len(h) + 1]

\* A variant of _format_argument that takes a node out of its tuple and sets
\* the priority on the node itself.
FormatArgumentOnItem(h, arg) ==
    IF arg.tup /\ arg.isnode
    THEN [heap |-> [h EXCEPT ![arg.node].priority = TRUE], node |-> arg.node]
    ELSE IF arg.tup
    THEN [heap |-> Append(h, [ExcelArgument(arg) EXCEPT !.priority = TRUE]),
          node |-> Len(h) + 1]
    ELSE _to_component(h, arg)

\* _format_argument.  The TypeError of lines 93-102 cannot be raised:
\* _to_component always returns an ExcelComponent.
_format_argument(h, arg) ==
    LET Prioritize(c) ==
            IF arg.tup
            THEN [heap |-> [c.heap EXCEPT ![c.node].priority = TRUE],
                  node |-> c.node]
            ELSE c
    IN  Prioritize(_to_component(h, arg))

\* _format_argument over a tuple of arguments, left to right.
RECURSIVE FormatArguments(_, _)
FormatArguments(h, args) ==
    IF args = <<>> THEN [heap |-> h, nodes |-> <<>>]
    ELSE LET Cons(f, r) == [heap |-> r.heap, nodes |-> <<f.node>> \o r.nodes]
             Rest(f)    == Cons(f, FormatArguments(f.heap, Tail(args)))
         IN  Rest(_format_argument(h, Head(args)))

\* A variant of the loop that leaves every argument without an owner.
RECURSIVE SetOwnersNone(_, _, _)
SetOwnersNone(h, args, owner) ==
    IF args = <<>> THEN h
    ELSE SetOwnersNone([h EXCEPT ![Head(args)].owner = 0], Tail(args), owner)

\* A variant of the loop that also hands the call to its argument.
RECURSIVE SetOwnersBoth(_, _, _)
SetOwnersBoth(h, args, owner) ==
    IF args = <<>> THEN h
    ELSE SetOwnersBoth([h EXCEPT ![Head(args)].owner = owner,
                                 ![owner].owner = Head(args)],
                       Tail(args), owner)

\* A variant of the loop that leaves an owner that is already set.
RECURSIVE SetOwnersOnce(_, _, _)
SetOwnersOnce(h, args, owner) ==
    IF args = <<>> THEN h
    ELSE SetOwnersOnce(IF h[Head(args)].owner = 0
                       THEN [h EXCEPT ![Head(args)].owner = owner] ELSE h,
                       Tail(args), owner)

\* "for arg in self._arguments: arg._owner = self"
RECURSIVE SetOwners(_, _, _)
SetOwners(h, args, owner) ==
    IF args = <<>> THEN h
    ELSE SetOwners([h EXCEPT ![Head(args)].owner = owner], Tail(args), owner)

\* ExcelExpression.__init__: the heap after it, and the new expression.
ExcelExpression(h, former, latter, operator) ==
    LET self == Len(h) + 1
        SetFormer(f) ==
            [f.heap EXCEPT ![self].former = f.node, ![f.node].owner = self]
        SetLatter(l) ==
            [l.heap EXCEPT ![self].latter = l.node, ![l.node].owner = self]
        SetOperator(h2) == [h2 EXCEPT ![self].operator = operator]
    IN  [heap |-> SetOperator(SetLatter(_format_argument(
                      SetFormer(_format_argument(
                          Append(h, NewObject("Expression")), former)),
                      latter))),
         node |-> self]

\* A variant of ExcelCall.__init__ that stores the arguments last to first.
ExcelCallReversed(h, kind, caller, args) ==
    LET self == Len(h) + 1
        Reverse(q) == [k \in 1..Len(q) |-> q[Len(q) + 1 - k]]
        SetArguments(f) ==
            SetOwners([f.heap EXCEPT ![self].arguments = Reverse(f.nodes)],
                      f.nodes, self)
    IN  [heap |-> SetArguments(FormatArguments(
                      Append(h, [NewObject(kind) EXCEPT !.caller = caller]),
                      args)),
         node |-> self]

\* ExcelCall.__init__, for the subclass kind ("FunctionCall", "FormulaCall").
ExcelCall(h, kind, caller, args) ==
    LET self == Len(h) + 1
        SetArguments(f) ==
            SetOwners([f.heap EXCEPT ![self].arguments = f.nodes], f.nodes, self)
    IN  [heap |-> SetArguments(FormatArguments(
                      Append(h, [NewObject(kind) EXCEPT !.caller = caller]),
                      args)),
         node |-> self]

\* ExcelCall.arguments
arguments(h, n) == h[n].arguments

\* ExcelCall.required_arguments: self._arguments[:req_count]
required_arguments(h, n) ==
    LET req_count == Len(h[n].caller.required)
    IN  SubSeq(h[n].arguments, 1,
               IF req_count < Len(h[n].arguments) THEN req_count
               ELSE Len(h[n].arguments))

\* ExcelCall.optional_arguments: self._arguments[req_count:], where req_count
\* is the length of the caller's optional arguments
optional_arguments(h, n) ==
    LET req_count == Len(h[n].caller.optional)
    IN  SubSeq(h[n].arguments, req_count + 1, Len(h[n].arguments))

-----------------------------------------------------------------------------
(* Compiling.  A compiled string is carried with the number of times       *)
(* _finalize_formula_string put its "=" in front while it was built.       *)

T(text)   == [text |-> text, frames |-> 0]
Cat(a, b) == [text |-> a.text \o b.text, frames |-> a.frames + b.frames]

RECURSIVE Join(_, _)
Join(parts, sep) ==
    IF parts = <<>> THEN T(<<>>)
    ELSE IF Len(parts) = 1 THEN parts[1]
    ELSE Cat(Cat(parts[1], T(sep)), Join(Tail(parts), sep))

\* _prioritize_formula_string
_prioritize_formula_string(h, n, formula_string) ==
    IF has_priority(h, n)
    THEN Cat(Cat(T(<<"(">>), formula_string), T(<<")">>))
    ELSE formula_string

\* A variant of _finalize_formula_string that does not ask is_master.
FinalizeAlways(h, n, formula_string) ==
    [text   |-> <<"=">> \o formula_string.text,
     frames |-> formula_string.frames + 1]

\* _finalize_formula_string
_finalize_formula_string(h, n, formula_string) ==
    IF is_master(h, n)
    THEN [text   |-> <<"=">> \o formula_string.text,
          frames |-> formula_string.frames + 1]
    ELSE formula_string

\* cls.compile as ExcelCompositeType.__new__ leaves it; str(node) and
\* node.to_string() are the same method (_compilemethod).
RECURSIVE Compile(_, _)

\* Python's repr() of the item of a single-element tuple: a primitive, an
\* ExcelArgument (ExcelArgument.__repr__) or an ExcelExpression
\* (ExcelExpression.__repr__).
Repr(h, item) ==
    IF item.isnode
    THEN CASE h[item.node].kind = "Argument" ->
                Cat(T(<<"A", "r", "g", " ">>), Compile(h, item.node))
           [] h[item.node].kind = "Expression" ->
                Cat(Cat(T(<<"E", "x", "p", "r", "e", "s", "s", "i", "o", "n", " ", "(">>),
                        Cat(Cat(Compile(h, h[item.node].former),
                                T(_EXPRESSION_OPERATORS(h[item.node].operator))),
                            Compile(h, h[item.node].latter))),
                    T(<<")">>))
    ELSE CASE item.prim.t = "None" -> T(<<"N", "o", "n", "e">>)
           [] item.prim.t = "str"  -> T(<<"'">> \o item.prim.s \o <<"'">>)
           [] item.prim.t = "bool" -> IF item.prim.b THEN T(<<"T", "r", "u", "e">>)
                                      ELSE T(<<"F", "a", "l", "s", "e">>)
           [] item.prim.t = "int"  -> T(IntStr(item.prim.i))

\* A variant of ExcelArgument.compile without the bool case: a bool is
\* compiled with str() like any other value.
ArgumentCompileStr(h, n) ==
    LET v == h[n].value
        p == v.prim
    IN  IF ~v.tup /\ (p.t = "None" \/ (p.t = "str" /\ p.s = <<>>))
        THEN T(<<"\"", "\"">>)
        ELSE IF ~v.tup /\ p.t = "str"
        THEN T(<<"\"">> \o p.s \o <<"\"">>)
        ELSE IF v.tup
        THEN Cat(Cat(T(<<"(">>), Repr(h, [v EXCEPT !.tup = FALSE])),
                 T(<<",", ")">>))
        ELSE IF p.t \in {"bool", "int"} THEN Repr(h, v)
        ELSE T(p.s)

\* ExcelArgument.compile
ArgumentCompile(h, n) ==
    LET v == h[n].value
        p == v.prim
    IN  IF ~v.tup /\ (p.t = "None" \/ (p.t = "str" /\ p.s = <<>>))
        THEN T(<<"\"", "\"">>)
        ELSE IF ~v.tup /\ p.t = "bool"
        THEN (IF p.b THEN T(<<"T", "R", "U", "E">>)
                     ELSE T(<<"F", "A", "L", "S", "E">>))
        ELSE IF ~v.tup /\ p.t = "str"
        THEN T(<<"\"">> \o p.s \o <<"\"">>)
        ELSE IF v.tup
        THEN Cat(Cat(T(<<"(">>), Repr(h, [v EXCEPT !.tup = FALSE])),
                 T(<<",", ")">>))
        ELSE IF p.t = "int" THEN T(IntStr(p.i))
        ELSE T(p.s)

\* A variant of ExcelExpression.compile that encloses an operand that is an
\* expression in parentheses.
ExpressionCompileGrouped(h, n) ==
    LET Operand(m) == IF h[m].kind = "Expression"
                      THEN Cat(Cat(T(<<"(">>), Compile(h, m)), T(<<")">>))
                      ELSE Compile(h, m)
    IN  Cat(Cat(Operand(h[n].former), T(_EXPRESSION_OPERATORS(h[n].operator))),
            Operand(h[n].latter))

\* ExcelExpression.compile
ExpressionCompile(h, n) ==
    Cat(Cat(Compile(h, h[n].former), T(_EXPRESSION_OPERATORS(h[n].operator))),
        Compile(h, h[n].latter))

\* A variant of ExcelFunctionCall.compile that joins with a comma only.
FunctionCallCompileComma(h, n) ==
    LET args == h[n].arguments
        arg_string == Join([k \in 1..Len(args) |-> Compile(h, args[k])],
                           <<",">>)
    IN  Cat(Cat(T(h[n].caller.name \o <<"(">>), arg_string), T(<<")">>))

\* ExcelFunctionCall.compile
FunctionCallCompile(h, n) ==
    LET args == h[n].arguments
        arg_string == Join([k \in 1..Len(args) |-> Compile(h, args[k])],
                           <<",", " ">>)
    IN  Cat(Cat(T(h[n].caller.name \o <<"(">>), arg_string), T(<<")">>))

\* ExcelFormulaCall.compile
FormulaCallCompile(h, n) ==
    LET args == h[n].arguments
    IN  Join([k \in 1..Len(args) |-> Compile(h, args[k])], <<>>)

Compile(h, n) ==
    LET inner == CASE h[n].kind = "Argument"     -> ArgumentCompile(h, n)
                   [] h[n].kind = "Expression"   -> ExpressionCompile(h, n)
                   [] h[n].kind = "FunctionCall" -> FunctionCallCompile(h, n)
                   [] h[n].kind = "FormulaCall"  -> FormulaCallCompile(h, n)
    IN  _finalize_formula_string(h, n, _prioritize_formula_string(h, n, inner))

-----------------------------------------------------------------------------
(* lib/argument.py, lib/function.py, lib/formula.py: calling a class.      *)

\* The TypeError ExcelArgumentHandler.__new__ raises, lines 239-258: nothing
\* is built.
Raised(h, check) == [status |-> check, heap |-> h, node |-> 0, formulated |-> 0]

\* ExcelFunctionArgumentHandler._handle_arguments
FunctionHandleArguments(h, c, args) ==
    LET Return(call) == [status |-> "ok", heap |-> call.heap,
                         node |-> call.node, formulated |-> 0]
    IN  Return(ExcelCall(h, "FunctionCall", c, args))

\* A variant of __new__ that handles the arguments before it checks their
\* count.
ExcelFunctionNewLate(h, c, args) ==
    [FunctionHandleArguments(h, c, args) EXCEPT
         !.status = CheckArguments(c, Len(args))]

\* ExcelArgumentHandler.__new__ for a subclass of ExcelFunction
ExcelFunctionNew(h, c, args) ==
    LET check == CheckArguments(c, Len(args))
    IN  IF check # "ok" THEN Raised(h, check)
        ELSE FunctionHandleArguments(h, c, args)

\* BlankIfBlank.formulate: (IF(reference == "", "", _else),)
BlankIfBlankFormulate(h, reference, else) ==
    LET CallIF(e) == ExcelFunctionNew(e.heap, IF_,
                         <<Node(e.node), Raw(PStr(<<>>)), Node(else)>>)
        Return(c) == [heap |-> c.heap, nodes |-> <<c.node>>]
    IN  Return(CallIF(ExcelExpression(h, Node(reference), Raw(PStr(<<>>)),
                                      "__eq__")))

\* cls.formulate(cls, *args): the expansion closure of the class.
Formulate(h, c, args) ==
    CASE c.name = BlankIfBlank.name ->
             BlankIfBlankFormulate(h, args[1], args[2])

\* ExcelFormula._handle_arguments
FormulaHandleArguments(h, c, args) ==
    LET Expand(f) == Formulate(f.heap, c, f.nodes)
        Build(x)  == ExcelCall(x.heap, "FormulaCall", c,
                               [k \in 1..Len(x.nodes) |-> Node(x.nodes[k])])
        Return(call) == [status |-> "ok", heap |-> call.heap,
                         node |-> call.node, formulated |-> 1]
    IN  Return(Build(Expand(FormatArguments(h, args))))

\* ExcelArgumentHandler.__new__ for a subclass of ExcelFormula
ExcelFormulaNew(h, c, args) ==
    LET check == CheckArguments(c, Len(args))
    IN  IF check # "ok" THEN Raised(h, check)
        ELSE FormulaHandleArguments(h, c, args)

\* ExcelArgumentHandler.__new__: what calling the class c with args returns
\* (status "ok", the call object) or raises (status "TooFew" / "TooMany"),
\* and the heap it leaves.
ExcelArgumentHandlerNew(h, c, args) ==
    IF c.kind = "Function" THEN ExcelFunctionNew(h, c, args)
    ELSE ExcelFormulaNew(h, c, args)

-----------------------------------------------------------------------------
(* get_value (lib/composite.py, lib/call.py, lib/formula.py,               *)
(* lib/builtin/_function.py).  A call of get_value returns a value or      *)
(* raises; a value is what an ExcelArgument stores, or a Python tuple.     *)

Value(v)     == [raised |-> "", value |-> v]
Raises(name) == [raised |-> name, value |-> Raw(PNone)]

\* A Python tuple of values.
PyTuple(items) == [t |-> "tuple", items |-> items]

IsTuple(v) == "items" \in DOMAIN v
IsStr(v)   == ~IsTuple(v) /\ ~v.tup /\ ~v.isnode /\ v.prim.t = "str"

\* Python's truth value of a value.
Bool(v) == IF IsTuple(v) THEN v.items # <<>>
           ELSE IF v.tup \/ v.isnode THEN TRUE
           ELSE CASE v.prim.t = "None" -> FALSE
                  [] v.prim.t = "int"  -> v.prim.i # 0
                  [] v.prim.t = "str"  -> v.prim.s # <<>>
                  [] v.prim.t = "bool" -> v.prim.b
                  [] OTHER             -> TRUE

\* The keys of _OPERATOR_OVERRIDE_METHODS.
_OPERATOR_OVERRIDE_METHODS == {"__and__"}

\* The methods among the keys of _EXPRESSION_OPERATORS that the type tuple
\* defines.
TupleMethods == {"__lt__", "__le__", "__eq__", "__ne__", "__gt__", "__ge__",
                 "__add__", "__mul__"}

\* _OPERATOR_OVERRIDE_METHODS["__and__"]: "".join((former, latter))
JoinOverride(former, latter) ==
    IF IsStr(former) /\ IsStr(latter)
    THEN Value(Raw(PStr(former.prim.s \o latter.prim.s)))
    ELSE Raises("TypeError")

\* The last lines of ExcelExpression.get_value, for a former_value that is a
\* tuple: the override method is called with both values; otherwise the
\* method getattr finds on the tuple is already bound to it, and is called
\* with two arguments where it takes one.
ApplyOperator(operator, former_value, latter_value) ==
    IF operator \in _OPERATOR_OVERRIDE_METHODS
    THEN JoinOverride(former_value, latter_value)
    ELSE IF operator \in TupleMethods THEN Raises("TypeError")
    ELSE Raises("AttributeError")

RECURSIVE GetValue(_, _)

\* ExcelArgument.get_value
ArgumentGetValue(h, n) == Value(h[n].value)

\* ExcelExpression.get_value.  Line 366 ends in a comma: former_value is the
\* one-item tuple of the value of the former operand.
ExpressionGetValue(h, n) ==
    LET Latter(f, l) ==
            IF l.raised # "" THEN l
            ELSE ApplyOperator(h[n].operator, PyTuple(<<f.value>>), l.value)
        Former(f) ==
            IF f.raised # "" THEN f
            ELSE Latter(f, GetValue(h, h[n].latter))
    IN  Former(GetValue(h, h[n].former))

\* ExcelCall.get_value for an ExcelFunctionCall: the GET method of the
\* calling class (IF, TRUE).
FunctionCallGetValue(h, n) ==
    LET args == h[n].arguments
        Test(t) ==
            IF t.raised # "" THEN t
            ELSE IF Bool(t.value) THEN GetValue(h, args[2])
            ELSE IF Len(args) < 3 THEN Raises("IndexError")
            ELSE GetValue(h, args[3])
    IN  CASE h[n].caller.name = IF_.name   -> Test(GetValue(h, args[1]))
          [] h[n].caller.name = TRUE_.name -> Value(Raw(PBool(TRUE)))

\* ExcelCall.get_value for an ExcelFormulaCall: ExcelFormula.get_value
\* returns a generator object.
Generator(n) == Raw([t |-> "generator", s |-> <<>>, b |-> FALSE, i |-> n])

GetValue(h, n) ==
    CASE h[n].kind = "Argument"     -> ArgumentGetValue(h, n)
      [] h[n].kind = "Expression"   -> ExpressionGetValue(h, n)
      [] h[n].kind = "FunctionCall" -> FunctionCallGetValue(h, n)
      [] h[n].kind = "FormulaCall"  -> Value(Generator(n))

\* ExcelFormula.get_value returns a generator over the arguments of the
\* formula call; Drain is list() of it from argument k on.
RECURSIVE Drain(_, _, _)
Drain(h, args, k) ==
    IF k > Len(args) THEN [raised |-> "", values |-> <<>>]
    ELSE LET Rest(v, r) ==
                 IF r.raised # "" THEN r
                 ELSE [raised |-> "", values |-> <<v.value>> \o r.values]
             First(v) ==
                 IF v.raised # "" THEN [raised |-> v.raised, values |-> <<>>]
                 ELSE Rest(v, Drain(h, args, k + 1))
         IN  First(GetValue(h, args[k]))

\* node.get_value(), and list() of it for a formula call.
Evaluation(h, n) ==
    LET One(v)  == [raised |-> v.raised, value |-> v.value, values |-> <<>>]
        Many(d) == [raised |-> d.raised, value |-> Raw(PNone), values |-> d.values]
    IN  IF h[n].kind = "FormulaCall" THEN Many(Drain(h, h[n].arguments, 1))
        ELSE One(GetValue(h, n))

-----------------------------------------------------------------------------
(* lib/reference.py: the column codec.                                     *)

ascii_uppercase == <<"A", "B", "C", "D", "E", "F", "G", "H", "I", "J", "K", "L", "M",
                     "N", "O", "P", "Q", "R", "S", "T", "U", "V", "W", "X", "Y", "Z">>

ascii_lowercase == <<"a", "b", "c", "d", "e", "f", "g", "h", "i", "j", "k", "l", "m",
                     "n", "o", "p", "q", "r", "s", "t", "u", "v", "w", "x", "y", "z">>

\* ascii_uppercase.index(char), 0-based
AsciiIndex(char) == (CHOOSE k \in 1..Len(ascii_uppercase) : ascii_uppercase[k] = char) - 1

\* A variant of _alpha_recursion that recurses on div (a base-26 with a zero
\* digit).
RECURSIVE AlphaRecursionZero(_, _)
AlphaRecursionZero(value, string) ==
    LET base == Len(ascii_uppercase)
        mod  == value % base
        div  == value \div base
        str  == <<ascii_uppercase[mod + 1]>> \o string
    IN  IF div < 1 THEN str ELSE AlphaRecursionZero(div, str)

\* _alpha_recursion
RECURSIVE _alpha_recursion(_, _)
_alpha_recursion(value, string) ==
    LET base == Len(ascii_uppercase)
        mod  == value % base
        div  == value \div base
        str  == <<ascii_uppercase[mod + 1]>> \o string
    IN  IF div < 1 THEN str ELSE _alpha_recursion(div - 1, str)

\* _alpha_column, for an int value
_alpha_column(value) == _alpha_recursion(value - 1, <<>>)

\* str.upper()
Upper(s) ==
    [k \in 1..Len(s) |->
        IF s[k] \in Range(ascii_lowercase)
        THEN ascii_uppercase[CHOOSE j \in 1..Len(ascii_lowercase) :
                                 ascii_lowercase[j] = s[k]]
        ELSE s[k]]

\* "s in t" for two strings: s occurs in t as a substring.
IsSubstring(s, t) ==
    \E i \in 0..(Len(t) - Len(s)) : SubSeq(t, i + 1, i + Len(s)) = s

\* The int a value is when isinstance(value, int) holds (a bool is an int).
IntValue(p) == IF p.t = "bool" THEN (IF p.b THEN 1 ELSE 0) ELSE p.i

\* _alpha_column for any value: what it returns or raises.
AlphaColumn(value) ==
    IF value.t = "str" /\ IsSubstring(Upper(value.s), ascii_uppercase)
    THEN [raised |-> "", text |-> Upper(value.s)]
    ELSE IF value.t \notin {"int", "bool"}
    THEN [raised |-> "TypeError", text |-> <<>>]
    ELSE [raised |-> "", text |-> _alpha_column(IntValue(value))]

RECURSIVE Power(_, _)
Power(b, e) == IF e = 0 THEN 1 ELSE b * Power(b, e - 1)

\* _numeric_column, for a str column of upper-case letters
RECURSIVE NumericSum(_, _, _)
NumericSum(reversed, k, base) ==
    IF k > Len(reversed) THEN 0
    ELSE Power(base, k - 1) * (AsciiIndex(reversed[k]) + 1)
         + NumericSum(reversed, k + 1, base)

_numeric_column(col) ==
    LET reversed == [k \in 1..Len(col) |-> col[Len(col) + 1 - k]]
    IN  NumericSum(reversed, 1, Len(ascii_uppercase))

-----------------------------------------------------------------------------
(* lib/reference.py: building a reference string.  A parameter that can be *)
(* None is a primitive value (PNone, PInt, PStr); ref is one of the four   *)
(* reference types.  A function returns [raised, text]: raised is "" or    *)
(* the name of the exception.                                              *)

ABS_REF == 1
ABS_ROW == 2
ABS_COL == 3
REL_REF == 4

Returned(text) == [raised |-> "", text |-> text]
RaisedError(name) == [raised |-> name, text |-> <<>>]

\* Python's truth value of a primitive.
Truthy(p) == CASE p.t = "None" -> FALSE
               [] p.t = "int"  -> p.i # 0
               [] p.t = "str"  -> p.s # <<>>
               [] p.t = "bool" -> p.b
               [] OTHER        -> TRUE

\* _build_single_cell_string.  The TypeError of _alpha_column passes through.
_build_single_cell_string(row, col, ref) ==
    LET number     == IF Truthy(row) THEN IntStr(row.i) ELSE <<>>
        row_string == IF number # <<>> /\ ref \in {ABS_REF, ABS_ROW}
                      THEN <<"$">> \o number ELSE number
        letter     == AlphaColumn(col)
        col_string == IF letter.text # <<>> /\ ref \in {ABS_REF, ABS_COL}
                      THEN <<"$">> \o row_string ELSE letter.text
    IN  IF letter.raised # "" THEN RaisedError(letter.raised)
        ELSE Returned(col_string \o row_string)

\* _build_reference_string
_build_reference_string(row, col, ref, sheet, workbook, r_row, r_col, r_ref) ==
    LET wb_string    == IF Truthy(workbook) THEN <<"[">> \o workbook.s \o <<"]">>
                        ELSE <<>>
        sheet_string == IF Truthy(sheet) THEN <<"'">> \o sheet.s \o <<"'", "!">>
                        ELSE <<>>
        ref_string   == _build_single_cell_string(row, col, ref)
        range_ref_string ==
            IF (Truthy(r_row) \/ Truthy(r_col)) /\ Truthy(r_ref)
            THEN _build_single_cell_string(r_row, r_col, r_ref.i)
            ELSE Returned(<<>>)
    IN  IF ref_string.raised # "" THEN ref_string
        ELSE IF range_ref_string.raised # "" THEN range_ref_string
        ELSE IF range_ref_string.text # <<>>
        THEN Returned(wb_string \o sheet_string \o ref_string.text \o <<":">>
                      \o range_ref_string.text)
        ELSE Returned(wb_string \o sheet_string \o ref_string.text)

\* ExcelRangeReference(row, col, ref, sheet=, workbook=, r_row=, r_col=,
\* r_ref=).compile()
RangeReferenceCompile(p) ==
    _build_reference_string(p.row, p.col, p.ref, p.sheet, p.workbook,
                            p.r_row, p.r_col, p.r_ref)

-----------------------------------------------------------------------------
(* lib/reference.py: parsing a reference string.  A compiled pattern is    *)
(* modelled by the leftmost match that re.search returns for it; when      *)
(* there is none, search returns None and .group() raises AttributeError.  *)

\* [a-zA-Z] and [0-9]
AsciiLetters == Range(ascii_uppercase) \cup Range(ascii_lowercase)
AsciiDigits  == {Digit(d) : d \in 0..9}

\* A character class: the characters listed, or (negated) all the others.
Class(chars)    == [negated |-> FALSE, chars |-> chars]
NotClass(chars) == [negated |-> TRUE,  chars |-> chars]
InClass(c, class) == IF class.negated THEN c \notin class.chars
                     ELSE c \in class.chars

\* The end of the longest run of characters of the class that starts at i
\* (i - 1 when s[i] is not of the class).
RunEnd(s, i, class) ==
    CHOOSE e \in (i - 1)..Len(s) :
        /\ \A k \in i..e : InClass(s[k], class)
        /\ e = Len(s) \/ ~InClass(s[e + 1], class)

\* re.search of "[class]+[class]" (at least two characters of the class).
SearchRun(s, class) ==
    LET starts == {i \in 1..(Len(s) - 1) :
                       InClass(s[i], class) /\ InClass(s[i + 1], class)}
        First(i) == Returned(SubSeq(s, i, RunEnd(s, i, class)))
    IN  IF starts = {} THEN RaisedError("AttributeError")
        ELSE First(CHOOSE i \in starts : \A k \in starts : i <= k)

\* _parse_workbook_reference: _WORKBOOK_REFERENCE_PATTERN "\[.*\..*\]",
\* both ".*" greedy.
_parse_workbook_reference(string) ==
    LET Ends(i) == {j \in (i + 2)..Len(string) :
                        /\ string[j] = "]"
                        /\ \E k \in (i + 1)..(j - 1) : string[k] = "."}
        starts  == {i \in 1..Len(string) : string[i] = "[" /\ Ends(i) # {}}
        Match(i) == Returned(SubSeq(string, i,
                        CHOOSE j \in Ends(i) : \A k \in Ends(i) : k <= j))
    IN  IF starts = {} THEN RaisedError("AttributeError")
        ELSE Match(CHOOSE i \in starts : \A k \in starts : i <= k)

\* _parse_sheet_reference: _SHEET_REFERENCE_PATTERN "\'.+?\'!", ".+?" lazy.
_parse_sheet_reference(string) ==
    LET Ends(i) == {j \in (i + 2)..(Len(string) - 1) :
                        string[j] = "'" /\ string[j + 1] = "!"}
        starts  == {i \in 1..Len(string) : string[i] = "'" /\ Ends(i) # {}}
        Match(i) == Returned(SubSeq(string, i,
                        (CHOOSE j \in Ends(i) : \A k \in Ends(i) : j <= k) + 1))
    IN  IF starts = {} THEN RaisedError("AttributeError")
        ELSE Match(CHOOSE i \in starts : \A k \in starts : i <= k)

\* _parse_range_reference: _RANGE_REFERENCE_PATTERN "\'![\$:a-zA-Z0-9]+",
\* then [2:].
_parse_range_reference(string) ==
    LET class  == Class({"$", ":"} \cup AsciiLetters \cup AsciiDigits)
        starts == {i \in 1..(Len(string) - 2) :
                       /\ string[i] = "'" /\ string[i + 1] = "!"
                       /\ InClass(string[i + 2], class)}
        Match(i) == Returned(SubSeq(string, i + 2, RunEnd(string, i + 2, class)))
    IN  IF starts = {} THEN RaisedError("AttributeError")
        ELSE Match(CHOOSE i \in starts : \A k \in starts : i <= k)

\* _parse_workbook_name: _WORKBOOK_NAME_PATTERN "[^\[\]]+[^\[\]]"
_parse_workbook_name(string) ==
    LET Name(reference) == IF reference.raised # "" THEN reference
                           ELSE SearchRun(reference.text, NotClass({"[", "]"}))
    IN  Name(_parse_workbook_reference(string))

\* _parse_sheet_name: _SHEET_NAME_PATTERN "[^\']+[^\']"
_parse_sheet_name(string) ==
    LET Name(reference) == IF reference.raised # "" THEN reference
                           ELSE SearchRun(reference.text, NotClass({"'"}))
    IN  Name(_parse_sheet_reference(string))

\* str.split(sep) for a one-character sep
RECURSIVE Split(_, _)
Split(s, sep) ==
    LET at == {i \in 1..Len(s) : s[i] = sep}
        Cut(i) == <<SubSeq(s, 1, i - 1)>> \o Split(SubSeq(s, i + 1, Len(s)), sep)
    IN  IF at = {} THEN <<s>>
        ELSE Cut(CHOOSE i \in at : \A k \in at : i <= k)

\* _parse_range_string: [raised, cells], cells the tuple of cell strings
_parse_range_string(string) ==
    LET Cells(reference) ==
            IF reference.raised # ""
            THEN [raised |-> reference.raised, cells |-> <<>>]
            ELSE [raised |-> "", cells |-> Split(reference.text, ":")]
    IN  Cells(_parse_range_reference(string))

\* Where a match of "\$?[class]+" that starts at i ends (0: no match at i).
TokenEnd(s, i, class) ==
    LET first == IF s[i] = "$" THEN i + 1 ELSE i
    IN  IF first <= Len(s) /\ InClass(s[first], class)
        THEN RunEnd(s, first, class) ELSE 0

\* _CELL_REFERENCE_PATTERN.findall(string) from position i on:
\* "\$?[a-zA-Z]+|\$?[0-9]+"
RECURSIVE FindAllCells(_, _)
FindAllCells(s, i) ==
    LET Next1(e1, e2) ==
            IF e1 # 0 THEN <<SubSeq(s, i, e1)>> \o FindAllCells(s, e1 + 1)
            ELSE IF e2 # 0 THEN <<SubSeq(s, i, e2)>> \o FindAllCells(s, e2 + 1)
            ELSE FindAllCells(s, i + 1)
    IN  IF i > Len(s) THEN <<>>
        ELSE Next1(TokenEnd(s, i, Class(AsciiLetters)),
                   TokenEnd(s, i, Class(AsciiDigits)))

\* _parse_cell_string
_parse_cell_string(string) == FindAllCells(string, 1)

-----------------------------------------------------------------------------
(* The states and the operations on the tree.                              *)

\* What the last operation was (op), how many operands or arguments it was
\* given (count), the class called (caller), whether it returned ("ok") or
\* raised ("TooFew", "TooMany"), and the object it returned (node).
NoResult == [op |-> "", count |-> 0, caller |-> <<>>, status |-> "", node |-> 0]

\* The primitives passed on the tree.
Prims == {PStr(<<"=">>)}

\* What a caller can pass as an operand or argument: a primitive or a node,
\* bare or in a single-element tuple.  A node in a tuple is an ExcelArgument
\* or an ExcelExpression.
Operands(h) ==
    {Raw(p) : p \in Prims} \cup {Tup(Raw(p)) : p \in Prims}
    \cup {Node(n) : n \in 1..Len(h)}
    \cup {Tup(Node(n)) : n \in {m \in 1..Len(h) : h[m].kind \in {"Argument", "Expression"}}}

\* The operators used on the tree.
TreeOperators == {"__eq__", "__add__"}

RECURSIVE Tuples(_, _)
Tuples(S, len) ==
    IF len = 0 THEN {<<>>}
    ELSE {<<x>> \o t : x \in S, t \in Tuples(S, len - 1)}

TuplesUpTo(S, len) == UNION {Tuples(S, k) : k \in 0..len}

NoDeclaration == [required |-> DTuple(<<>>), optional |-> DTuple(<<>>)]

NoColumn == /\ column = 0
            /\ letters = <<>>
            /\ index = 0

\* What get_value returned (value; values for the generator a formula
\* returns, drained) or the exception it raised.
NoEvaluation == [raised |-> "", value |-> PNone, values |-> <<>>]

\* ExcelRangeReference.__init__: the default parameters.
DefaultReference ==
    [row |-> PInt(1), col |-> PInt(1), ref |-> ABS_REF, sheet |-> PNone,
     workbook |-> PNone, r_row |-> PNone, r_col |-> PNone, r_ref |-> PNone]

NoBuild == [done |-> FALSE, p |-> DefaultReference, raised |-> "", text |-> <<>>]

NoParse == [done |-> FALSE, string |-> <<>>, workbook |-> Returned(<<>>), sheet |-> Returned(<<>>),
            range |-> [raised |-> "", cells |-> <<>>], cells |-> <<>>]

\* Nothing compiled or evaluated yet.
NoOutput == /\ compiled = <<>>
            /\ evaluated = NoEvaluation

\* No class defined beyond the base class yet.
NoClasses == classes = <<>>

\* No reference built or parsed yet.
NoReference == /\ built = NoBuild
               /\ parsed = NoParse

Init == /\ nodes = <<>>
        /\ result = NoResult
        /\ formulated = 0
        /\ cls = NoClass
        /\ declared = NoDeclaration
        /\ NoColumn
        /\ NoOutput
        /\ NoReference
        /\ NoClasses

\* ExcelArgument(value)
NewArgument(p) ==
    /\ Len(nodes) < MaxHeap
    /\ nodes' = Append(nodes, ExcelArgument(Raw(p)))
    /\ result' = [op |-> "ExcelArgument", count |-> 1, caller |-> <<>>,
                  status |-> "ok", node |-> Len(nodes) + 1]
    /\ UNCHANGED <<formulated, cls, declared, column, letters, index,
                 compiled, evaluated, built, parsed, classes>>

\* self <op> other: the method _construct_expression_method(op) returns
Operator(self, other, op) ==
    /\ Len(nodes) < MaxHeap
    /\ LET e == ExcelExpression(nodes, Node(self), other, op)
       IN  /\ nodes' = e.heap
           /\ result' = [op |-> op, count |-> 2, caller |-> <<>>,
                         status |-> "ok", node |-> e.node]
    /\ UNCHANGED <<formulated, cls, declared, column, letters, index,
                 compiled, evaluated, built, parsed, classes>>

\* c(*args), for a class c of the tree
Call(c, args) ==
    /\ Len(nodes) < MaxHeap
    /\ LET r == ExcelArgumentHandlerNew(nodes, c, args)
       IN  /\ nodes' = r.heap
           /\ result' = [op |-> "call", count |-> Len(args), caller |-> c.name,
                         status |-> r.status, node |-> r.node]
           /\ formulated' = formulated + r.formulated
    /\ UNCHANGED <<cls, declared, column, letters, index,
                 compiled, evaluated, built, parsed, classes>>

Next == \/ \E p \in Prims : NewArgument(p)
        \/ /\ Len(nodes) < MaxHeap
           /\ \E self \in 1..Len(nodes), other \in Operands(nodes), op \in TreeOperators :
                  Operator(self, other, op)
        \/ /\ Len(nodes) < MaxHeap
           /\ \E c \in TreeClasses, args \in TuplesUpTo(Operands(nodes), MaxArgs) :
                  Call(c, args)

Spec == Init /\ [][Next]_vars

-----------------------------------------------------------------------------
(* Declaring a function class and calling it (lib/argument.py,             *)
(* lib/function.py).  The caller keeps no earlier call, so the heap holds  *)
(* the objects of the last call only.                                      *)

DeclaredItems == {"a", Ellipsis, NoneItem}

Declarations ==
    {DNone, DEllipsis, DStr("a")}
    \cup {DTuple(t) : t \in TuplesUpTo(DeclaredItems, MaxDeclared)}

\* ExcelFunction itself: no arguments declared.
ExcelFunction == HandlerTypeNew(<<"E", "x", "c", "e", "l", "F", "u", "n", "c", "t", "i", "o", "n">>,
                     "Function", DTuple(<<>>), DTuple(<<>>), FALSE, <<>>)

InitArity == /\ nodes = <<>>
             /\ result = NoResult
             /\ formulated = 0
             /\ cls = ExcelFunction
             /\ declared = NoDeclaration
             /\ NoColumn
             /\ NoOutput
             /\ NoReference
             /\ NoClasses

\* class F(ExcelFunction) with the two class variables as declared; a
\* behaviour declares one class and then calls it.
DefineClass(required, optional) ==
    /\ cls = ExcelFunction
    /\ cls' = HandlerTypeNew(<<"F">>, "Function", required, optional, FALSE, <<>>)
    /\ declared' = [required |-> required, optional |-> optional]
    /\ nodes' = <<>>
    /\ result' = NoResult
    /\ UNCHANGED <<formulated, column, letters, index,
                 compiled, evaluated, built, parsed, classes>>

\* cls(1, ..., n)
Instantiate(n) ==
    /\ LET args == [k \in 1..n |-> Raw(PInt(k))]
           r    == ExcelArgumentHandlerNew(<<>>, cls, args)
       IN  /\ nodes' = r.heap
           /\ result' = [op |-> "call", count |-> n, caller |-> cls.name,
                         status |-> r.status, node |-> r.node]
    /\ UNCHANGED <<formulated, cls, declared, column, letters, index,
                 compiled, evaluated, built, parsed, classes>>

NextArity == \/ /\ cls = ExcelFunction
                /\ \E required \in Declarations, optional \in Declarations :
                       DefineClass(required, optional)
             \/ \E n \in 0..MaxSupplied : Instantiate(n)

SpecArity == InitArity /\ [][NextArity]_vars

-----------------------------------------------------------------------------
(* A chain of function classes, each a subclass of the one before          *)
(* (lib/argument.py).  A class statement may leave any of the three class  *)
(* variables out; the metaclass then reads the value of the parent class.  *)

\* The longest chain of subclasses below ExcelFunction.
MaxChain == 3

\* A class variable the class statement does not assign.
Undeclared == [form |-> "undeclared", items |-> <<>>]

\* The argument names the k-th class of a chain declares.
RequiredName == <<"a", "b", "c", "d", "e">>
OptionalName == <<"A", "B", "C", "D", "E">>

\* The namespaces of the class statement of the k-th class.
Namespaces(k) ==
    [required : {Undeclared, DTuple(<<>>), DTuple(<<RequiredName[k]>>)},
     optional : {Undeclared, DTuple(<<OptionalName[k]>>)},
     inherit  : {"undeclared", "True", "False"}]

\* ExcelFunction as the head of a chain: __inheritarguments__ is False.
ExcelFunctionBase ==
    [namespace |-> [required |-> DTuple(<<>>), optional |-> DTuple(<<>>),
                    inherit |-> "False"],
     inherit   |-> "False",
     class     |-> ExcelFunction]

\* "class F(base): ..." with the given namespace: the attribute lookups
\* cls.__inheritarguments__, cls.__requiredarguments__ and
\* cls.__optionalarguments__ of ExcelArgumentHandlerType.__new__ find the
\* value of the parent class when the namespace has none.
ClassStatement(name, namespace, base) ==
    LET Lookup(own, inherited) == IF own = Undeclared THEN DTuple(inherited)
                                  ELSE own
        inherit == IF namespace.inherit = "undeclared" THEN base.inherit
                   ELSE namespace.inherit
    IN  [namespace |-> namespace,
         inherit   |-> inherit,
         class     |-> HandlerTypeNew(name, "Function",
                           Lookup(namespace.required, base.class.required),
                           Lookup(namespace.optional, base.class.optional),
                           inherit = "True", <<base.class>>)]

\* The parent of the next class of the chain.
LastClass == IF classes = <<>> THEN ExcelFunctionBase ELSE classes[Len(classes)]

\* class F(<the last class defined>) with the given namespace
DefineSubclass(namespace) ==
    /\ Len(classes) < MaxChain
    /\ LET Defined(c) == /\ classes' = Append(classes, c)
                         /\ cls' = c.class
       IN  Defined(ClassStatement(<<"F">>, namespace, LastClass))
    /\ declared' = [required |-> namespace.required,
                    optional |-> namespace.optional]
    /\ UNCHANGED <<nodes, result, formulated, column, letters, index,
                   compiled, evaluated, built, parsed>>

NextInherit == /\ Len(classes) < MaxChain
               /\ \E namespace \in Namespaces(Len(classes) + 1) :
                      DefineSubclass(namespace)

SpecInherit == InitArity /\ [][NextInherit]_vars

-----------------------------------------------------------------------------
(* Converting a column index to letters and back (lib/reference.py).       *)

InitColumn == /\ nodes = <<>>
              /\ result = NoResult
              /\ formulated = 0
              /\ cls = NoClass
              /\ declared = NoDeclaration
              /\ NoColumn
              /\ NoOutput
              /\ NoReference
              /\ NoClasses

\* _numeric_column(_alpha_column(c))
ConvertColumn(c) ==
    /\ c <= MaxColumn
    /\ column' = c
    /\ letters' = _alpha_column(c)
    /\ index' = _numeric_column(letters')
    /\ UNCHANGED <<nodes, result, formulated, cls, declared,
                 compiled, evaluated, built, parsed, classes>>

NextColumn == ConvertColumn(column + 1)

SpecColumn == InitColumn /\ [][NextColumn]_vars

-----------------------------------------------------------------------------
(* Building a range reference and parsing its string (lib/reference.py).   *)
(* A behaviour builds one reference and parses its string, or parses a     *)
(* reference string written as documented.                                 *)

\* The largest row index of the anchor cell.
MaxRow == 1
\* The longest generated sheet or workbook name.
MaxName == 2

Book1 == <<"B", "o", "o", "k", "1", ".", "x", "l", "s", "x">>
Sheet1 == <<"S", "h", "e", "e", "t", "1">>

NamesOver(alphabet) == UNION {Tuples(alphabet, k) : k \in 1..MaxName}

WorkbookNames == {Book1} \cup NamesOver({"b", "."})
SheetNames    == {Sheet1} \cup NamesOver({"s", "1"})

RefTypes == {ABS_REF, ABS_ROW, ABS_COL, REL_REF}

\* The parameters a caller passes to ExcelRangeReference.
References ==
    [row      : {PInt(r) : r \in 0..MaxRow},
     col      : {PInt(1), PInt(27)},
     ref      : RefTypes,
     sheet    : {PNone} \cup {PStr(n) : n \in SheetNames},
     workbook : {PNone} \cup {PStr(n) : n \in WorkbookNames},
     r_row    : {PNone, PInt(2)},
     r_col    : {PNone, PInt(1)},
     r_ref    : {PNone, PInt(ABS_REF), PInt(REL_REF)}]

InitReference == /\ nodes = <<>>
                 /\ result = NoResult
                 /\ formulated = 0
                 /\ cls = NoClass
                 /\ declared = NoDeclaration
                 /\ NoColumn
                 /\ NoOutput
                 /\ NoReference
                 /\ NoClasses

\* ExcelRangeReference(**p).compile()
BuildReference(p) ==
    /\ ~built.done
    /\ ~parsed.done
    /\ LET Built(r) == [done |-> TRUE, p |-> p, raised |-> r.raised,
                        text |-> r.text]
       IN  built' = Built(RangeReferenceCompile(p))
    /\ UNCHANGED <<nodes, result, formulated, cls, declared, column, letters,
                   index, compiled, evaluated, parsed, classes>>

\* A reference string as ExcelRangeReference.__doc__ writes it:
\* [workbook]'sheet'!cell:cell
Qualified(workbook, sheet, anchor, opposite) ==
    <<"[">> \o workbook \o <<"]", "'">> \o sheet \o <<"'", "!">>
    \o anchor \o <<":">> \o opposite

CellStrings == {<<"$", "A", "$", "1">>, <<"A", "2">>, <<"A", "$", "1">>,
                <<"$", "A", "A", "1", "2">>}

\* A reference string with or without its workbook, its sheet and its
\* second cell (<<>> for a part that is left out).
ParseCases ==
    [workbook : {<<>>} \cup WorkbookNames,
     sheet    : {<<>>} \cup SheetNames,
     anchor   : CellStrings,
     opposite : {<<>>} \cup CellStrings]

Address(c) ==
    (IF c.workbook = <<>> THEN <<>> ELSE <<"[">> \o c.workbook \o <<"]">>)
    \o (IF c.sheet = <<>> THEN <<>> ELSE <<"'">> \o c.sheet \o <<"'", "!">>)
    \o c.anchor
    \o (IF c.opposite = <<>> THEN <<>> ELSE <<":">> \o c.opposite)

\* The strings handed to the parse functions: the string just built, or a
\* reference string as it is written.
ParseInputs ==
    IF built.done
    THEN (IF built.raised = "" THEN {built.text} ELSE {})
    ELSE {Address(c) : c \in ParseCases}

\* _parse_workbook_name, _parse_sheet_name, _parse_range_string and, for
\* each cell of the range, _parse_cell_string, applied to string.
ParseReference(string) ==
    /\ ~parsed.done
    /\ LET Parsed(range) ==
               [done     |-> TRUE,
                string   |-> string,
                workbook |-> _parse_workbook_name(string),
                sheet    |-> _parse_sheet_name(string),
                range    |-> range,
                cells    |-> [k \in 1..Len(range.cells) |->
                                 _parse_cell_string(range.cells[k])]]
       IN  parsed' = Parsed(_parse_range_string(string))
    /\ UNCHANGED <<nodes, result, formulated, cls, declared, column, letters,
                   index, compiled, evaluated, built, classes>>

NextReference == \/ /\ ~built.done /\ ~parsed.done
                    /\ \E p \in References : BuildReference(p)
                 \/ /\ ~parsed.done
                    /\ \E string \in ParseInputs : ParseReference(string)

SpecReference == InitReference /\ [][NextReference]_vars

\* Building a single cell: the column values a caller passes.
Columns ==
    {PInt(0 - 27), PInt(0 - 1), PInt(0), PInt(1), PInt(26), PInt(27), PNone}
    \cup {PStr(c) : c \in {<<"A">>, <<"a">>, <<"A", "A">>, <<"z", "z">>,
                           <<"A", "B">>, <<"b">>, <<>>, <<"1">>, <<"A", "1">>}}

\* The parameters of ExcelRangeReference(row, col, ref).
CellReferences ==
    {[DefaultReference EXCEPT !.row = PInt(r), !.col = c, !.ref = k] :
        r \in 0..MaxRow, c \in Columns, k \in RefTypes}

NextCell == /\ ~built.done /\ ~parsed.done
            /\ \E p \in CellReferences : BuildReference(p)

SpecCell == InitReference /\ [][NextCell]_vars

-----------------------------------------------------------------------------
(* Compiling and evaluating (lib/composite.py, lib/call.py,                *)
(* lib/formula.py).  Literals, expressions over them and BlankIfBlank      *)
(* formulas are built, and any node is compiled or evaluated.              *)

\* Construction starts while the heap holds fewer objects than this.
MaxRender == 2

A1 == <<"A", "1">>
B1 == <<"B", "1">>

\* An object of a class the library does not know; s is its str().
PObject == [t |-> "object", s |-> <<"<", "o", "b", "j", "e", "c", "t", ">">>,
            b |-> FALSE, i |-> 0]

\* The values passed to ExcelArgument.
Literals == {PNone, PStr(<<>>), PStr(<<"a">>), PStr(<<"b">>), PBool(TRUE),
             PBool(FALSE), PInt(1), PInt(2), PInt(5), PRef(A1), PRef(B1)}

\* The right operands of an operator: a primitive, an unknown object or a
\* node.
RightOperands(h) ==
    {Raw(PInt(2)), Raw(PStr(<<"b">>)), Raw(PStr(<<>>)), Raw(PObject)}
    \cup {Node(n) : n \in 1..Len(h)}

\* The arguments of BlankIfBlank.
ReferenceArguments(h) == {Raw(PRef(A1)), Raw(PObject)} \cup {Node(n) : n \in 1..Len(h)}
ElseArguments(h) == {Raw(PRef(B1)), Raw(PInt(5))} \cup {Node(n) : n \in 1..Len(h)}

\* A variant of compile that stores the priority it used on the node.
RenderPrioritizes(n) ==
    /\ compiled' = Compile(nodes, n).text
    /\ evaluated' = NoEvaluation
    /\ nodes' = [nodes EXCEPT ![n].priority = TRUE]
    /\ result' = [op |-> "compile",
                  count |-> IF result.op = "compile" /\ result.node = n THEN 2 ELSE 1,
                  caller |-> <<>>, status |-> "ok", node |-> n]
    /\ UNCHANGED <<formulated, cls, declared, column, letters, index,
                   built, parsed, classes>>

\* str(node) / node.compile(): count is the number of times in a row the
\* node has been compiled (2 for two or more).
Render(n) ==
    /\ compiled' = Compile(nodes, n).text
    /\ evaluated' = NoEvaluation
    /\ result' = [op |-> "compile",
                  count |-> IF result.op = "compile" /\ result.node = n THEN 2 ELSE 1,
                  caller |-> <<>>, status |-> "ok", node |-> n]
    /\ UNCHANGED <<nodes, formulated, cls, declared, column, letters, index,
                   built, parsed, classes>>

\* A variant of get_value that runs formulate again for a formula call.
EvaluateFormulates(n) ==
    /\ evaluated' = Evaluation(nodes, n)
    /\ compiled' = <<>>
    /\ formulated' = IF nodes[n].kind = "FormulaCall" THEN formulated + 1
                     ELSE formulated
    /\ result' = [op |-> "get_value", count |-> 1, caller |-> <<>>,
                  status |-> "ok", node |-> n]
    /\ UNCHANGED <<nodes, cls, declared, column, letters, index,
                   built, parsed, classes>>

\* node.get_value(), drained when it is a generator
Evaluate(n) ==
    /\ evaluated' = Evaluation(nodes, n)
    /\ compiled' = <<>>
    /\ result' = [op |-> "get_value", count |-> 1, caller |-> <<>>,
                  status |-> "ok", node |-> n]
    /\ UNCHANGED <<nodes, formulated, cls, declared, column, letters, index,
                   built, parsed, classes>>

NextRender ==
    \/ /\ Len(nodes) < MaxRender
       /\ \E p \in Literals : NewArgument(p)
    \/ /\ Len(nodes) < MaxRender
       /\ \E self \in 1..Len(nodes), other \in RightOperands(nodes),
             op \in OperatorNames :
              Operator(self, other, op)
    \/ /\ Len(nodes) < MaxRender
       /\ \E reference \in ReferenceArguments(nodes), else \in ElseArguments(nodes) :
              Call(BlankIfBlank, <<reference, else>>)
    \/ /\ Len(nodes) < MaxRender
       /\ \E reference \in ReferenceArguments(nodes) :
              Call(BlankIfBlank, <<reference>>)
    \/ \E n \in 1..Len(nodes) : Render(n)
    \/ \E n \in 1..Len(nodes) : Evaluate(n)

SpecRender == Init /\ [][NextRender]_vars

-----------------------------------------------------------------------------
(* Function calls built on literals and on each other, and compiled.       *)

FunctionLiterals == {PInt(1), PStr(<<"a">>)}

\* The function classes called.
FunctionClasses == {IF_, TRUE_}

\* What is passed to a function class: a primitive or a node.
FunctionArguments(h) ==
    {Raw(PInt(2)), Raw(PStr(<<"b">>))} \cup {Node(n) : n \in 1..Len(h)}

NextFunction ==
    \/ /\ Len(nodes) < MaxRender
       /\ \E p \in FunctionLiterals : NewArgument(p)
    \/ /\ Len(nodes) < MaxRender
       /\ \E c \in FunctionClasses,
             args \in TuplesUpTo(FunctionArguments(nodes), MaxArgs + 1) :
              Call(c, args)
    \/ \E n \in 1..Len(nodes) : Render(n)

SpecFunction == Init /\ [][NextFunction]_vars

-----------------------------------------------------------------------------
(* Expressions built on a literal and on each other with every operator,   *)
(* and compiled.                                                           *)

\* The right operands: a primitive or a node.
ExpressionOperands(h) == {Raw(PStr(<<"b">>))} \cup {Node(n) : n \in 1..Len(h)}

NextExpression ==
    \/ /\ nodes = <<>>
       /\ NewArgument(PInt(1))
    \/ /\ Len(nodes) < MaxHeap
       /\ \E self \in 1..Len(nodes), other \in ExpressionOperands(nodes),
             op \in OperatorNames :
              Operator(self, other, op)
    \/ \E n \in 1..Len(nodes) : Render(n)

SpecExpression == Init /\ [][NextExpression]_vars

-----------------------------------------------------------------------------
(* Properties of the tree (Spec).                                          *)

Objects == 1..Len(nodes)

\* The objects p keeps as its operands or arguments.
Children(h, p) == ({h[p].former, h[p].latter} \cup Range(h[p].arguments)) \ {0}

Parents(h, c) == {p \in 1..Len(h) : c \in Children(h, p)}

Latest(S) == CHOOSE p \in S : \A q \in S : q <= p

\* C29, as the specification states it: every node kept as an operand or
\* argument of an expression or call p has p as its owner, and so has the
\* master of p as its master.
OwnerIsEveryParent ==
    \A p \in Objects :
        \A c \in Children(nodes, p) :
            /\ nodes[c].owner = p
            /\ master(nodes, c) = master(nodes, p)

\* C29, amended: a node kept as an operand or argument has as its owner the
\* latest expression or call that keeps it, and the master of that one as
\* its master; it is owned by every object that keeps it only when a single
\* object keeps it.  A node nothing keeps has no owner.
OwnerIsLatestParent ==
    \A c \in Objects :
        LET parents == Parents(nodes, c)
        IN  IF parents = {} THEN is_master(nodes, c)
            ELSE /\ nodes[c].owner = Latest(parents)
                 /\ master(nodes, c) = master(nodes, Latest(parents))
                 /\ Cardinality(parents) = 1 =>
                        \A p \in parents : nodes[c].owner = p

\* A node kept by an expression and by a later function call, both without
\* an owner: its master is the call.
KeptUnderTwoMasters ==
    \E c \in Objects, p, q \in Objects :
        /\ p < q
        /\ nodes[p].kind = "Expression" /\ nodes[q].kind = "FunctionCall"
        /\ c \in Children(nodes, p) /\ c \in Children(nodes, q)
        /\ is_master(nodes, p) /\ is_master(nodes, q)
        /\ master(nodes, c) = q

FramedIffMaster ==
    \A n \in Objects :
        LET text == Compile(nodes, n).text
        IN  (text # <<>> /\ Head(text) = "=") <=> is_master(nodes, n)

\* An owned literal whose value is the string "=", under a master expression.
OwnedEqualsLiteral ==
    \E n \in Objects, m \in Objects :
        /\ nodes[n].kind = "Argument" /\ nodes[n].value = Raw(PStr(<<"=">>))
        /\ nodes[n].owner = m
        /\ nodes[m].kind = "Expression" /\ is_master(nodes, m)
        /\ Head(Compile(nodes, m).text) = "="
        /\ Head(Compile(nodes, n).text) # "="

\* C3: in the text compiled for a master, the "=" framing prefix is added
\* exactly once; no node compiled as part of the master's inner text adds
\* one of its own.
FramedExactlyOnce ==
    \A n \in Objects : is_master(nodes, n) => Compile(nodes, n).frames = 1

\* C4: following owner links from any node reaches a node with no owner in
\* finitely many steps, and master returns that node; a node with no owner
\* is its own master.
RECURSIVE FollowOwner(_, _, _)
FollowOwner(h, n, steps) ==
    IF h[n].owner = 0 THEN n
    ELSE IF steps = 0 THEN 0
    ELSE FollowOwner(h, h[n].owner, steps - 1)

OwnerLinksAcyclic ==
    \A n \in Objects :
        LET root == FollowOwner(nodes, n, Len(nodes))
        IN  /\ root # 0
            /\ master(nodes, n) = root
            /\ is_master(nodes, root)
            /\ (is_master(nodes, n) => master(nodes, n) = n)

\* A node two owner links below its master.
OwnerChain ==
    \E n \in Objects :
        /\ nodes[n].owner # 0
        /\ nodes[nodes[n].owner].owner # 0
        /\ master(nodes, n) = nodes[nodes[n].owner].owner

\* C7: when calling a class raises for too few or too many arguments, no
\* object is created, no owner or priority changes, and formulate has not
\* run.
NothingBuiltOnArityError ==
    [][result'.status \in {"TooFew", "TooMany"} =>
           nodes' = nodes /\ formulated' = formulated]_vars

\* A formula class called on existing nodes with one argument too few.
FormulaCallRaised ==
    /\ result.op = "call" /\ result.caller = BlankIfBlank.name
    /\ result.count = 1 /\ result.status = "TooFew"
    /\ nodes # <<>> /\ formulated = 0

\* C26: for every function call whose class declares no open-ended marker,
\* required_arguments is the first |R| stored arguments and
\* optional_arguments is exactly the stored arguments after them: the two
\* are disjoint and their concatenation is the stored arguments.
ArgumentsPartitioned ==
    \A n \in 1..Len(nodes) :
        nodes[n].kind = "FunctionCall" /\ ~is_openended(nodes[n].caller) =>
            LET R == Len(nodes[n].caller.required)
                stored == arguments(nodes, n)
            IN  /\ required_arguments(nodes, n) =
                       SubSeq(stored, 1, IF R < Len(stored) THEN R ELSE Len(stored))
                /\ optional_arguments(nodes, n) =
                       SubSeq(stored, R + 1, Len(stored))
                /\ required_arguments(nodes, n) \o optional_arguments(nodes, n)
                       = stored

-----------------------------------------------------------------------------
(* Properties of the argument count (SpecArity).                           *)

Called == result.op = "call"

\* The number of names in a processed argument tuple.
Named(tuple) == Cardinality({k \in 1..Len(tuple) : tuple[k] # Ellipsis})

\* C5: for a class whose required tuple R and optional tuple O hold no '...',
\* a call with n arguments returns iff |R| <= n <= |R| + |O|; n < |R| raises
\* for too few and n > |R| + |O| raises for too many.
ClosedArity ==
    (Called /\ ~is_openended(cls)) =>
        LET n == result.count
            R == Len(cls.required)
            O == Len(cls.optional)
        IN  /\ (result.status = "ok") <=> (R <= n /\ n <= R + O)
            /\ (n < R) => result.status = "TooFew"
            /\ (n > R + O) => result.status = "TooMany"

\* R = (a, b), O = (c,), four arguments: too many.
ClosedArityTooMany ==
    /\ Called /\ ~is_openended(cls)
    /\ Len(cls.required) = 2 /\ Len(cls.optional) = 1
    /\ result.count = 4 /\ result.status = "TooMany"

\* C6: for a class with required = () and an optional tuple ending in '...',
\* a call with any number of arguments returns.
OpenOptionalAccepts ==
    (/\ Called
     /\ cls.required = <<>>
     /\ cls.optional # <<>>
     /\ cls.optional[Len(cls.optional)] = Ellipsis) => result.status = "ok"

\* required = (), optional = (a, ...), the largest number of arguments.
OpenOptionalLargest ==
    /\ Called /\ cls.required = <<>> /\ cls.optional = <<"a", Ellipsis>>
    /\ result.count = MaxSupplied /\ result.status = "ok"

\* C8: a call with fewer arguments than the class names required arguments
\* always raises, also when the required tuple holds '...' beside the names.
FewerThanNamedRaises ==
    (Called /\ result.count < Named(cls.required)) => result.status # "ok"

\* The class variable is None, '...', or a tuple holding None or '...'.
DeclaredOpen(d) ==
    \/ d.form \in {"None", "Ellipsis"}
    \/ d.form = "tuple" /\ Range(d.items) \cap {NoneItem, Ellipsis} # {}

\* C9: a class that declares its required or optional arguments as None, as
\* '...', or as a tuple holding None or '...' is open-ended: is_openended()
\* is true, and a call with at least the named required arguments returns,
\* whatever their number.
DeclaredOpenIsOpenEnded ==
    (DeclaredOpen(declared.required) \/ DeclaredOpen(declared.optional)) =>
        /\ is_openended(cls)
        /\ (Called /\ result.count >= Named(cls.required)) => result.status = "ok"

\* __optionalarguments__ = None beside one required name, the largest number
\* of arguments.
DeclaredNoneAccepts ==
    /\ declared.optional = DNone /\ declared.required = DTuple(<<"a">>)
    /\ is_openended(cls)
    /\ Called /\ result.count = MaxSupplied /\ result.status = "ok"

-----------------------------------------------------------------------------
(* Properties of the column codec (SpecColumn).                            *)

\* The iteration letter = 'A' + (value - 1) % 26, value = (value - 1) / 26,
\* prepending letters until value reaches 0.
RECURSIVE Bijective26(_, _)
Bijective26(value, string) ==
    IF value = 0 THEN string
    ELSE Bijective26((value - 1) \div 26,
                     <<ascii_uppercase[((value - 1) % 26) + 1]>> \o string)

\* C10: for every column index c >= 1, _numeric_column(_alpha_column(c)) = c,
\* _alpha_column(c) is what the bijective base-26 iteration gives, and the
\* letters of 1, 26 and 27 are A, Z and AA.
ColumnRoundTrip ==
    column >= 1 =>
        /\ index = column
        /\ letters = Bijective26(column, <<>>)
        /\ (column = 1 => letters = <<"A">>)
        /\ (column = 26 => letters = <<"Z">>)
        /\ (column = 27 => letters = <<"A", "A">>)

\* Column 27 converted to AA and back.
ColumnAA == column = 27 /\ letters = <<"A", "A">> /\ index = 27

-----------------------------------------------------------------------------
(* Properties of single-element tuples on the tree (Spec).                 *)

\* The text a value contributes as an operand or argument when it is passed
\* without a tuple: the inner text of the literal made for a primitive, the
\* owned text of an existing node.
PlainText(h, owner, v) ==
    IF v.isnode
    THEN Compile([h EXCEPT ![v.node].owner = owner], v.node).text
    ELSE ArgumentCompile(<<ExcelArgument(Raw(v.prim))>>, 1).text

\* C14: an operand or argument passed as the single-element tuple (v,)
\* contributes "(" followed by the text v contributes without the tuple
\* followed by ")", and has its priority flag set.
TupleForcesPriority ==
    \A n \in 1..Len(nodes) :
        (nodes[n].kind = "Argument" /\ nodes[n].value.tup /\ ~is_master(nodes, n)) =>
            /\ has_priority(nodes, n)
            /\ Compile(nodes, n).text =
                   <<"(">> \o PlainText(nodes, n, [nodes[n].value EXCEPT !.tup = FALSE])
                   \o <<")">>

-----------------------------------------------------------------------------
(* Properties of compiling and evaluating (SpecRender).                    *)

Rendered(n)  == result.op = "compile" /\ result.node = n
Evaluated(n) == result.op = "get_value" /\ result.node = n

\* The text of a literal: "" for None and the empty string, TRUE / FALSE
\* for a bool, the string in double quotes for another string, str() for
\* anything else.
LiteralText(p) ==
    CASE p.t = "None" -> <<"\"", "\"">>
      [] p.t = "str"  -> IF p.s = <<>> THEN <<"\"", "\"">>
                         ELSE <<"\"">> \o p.s \o <<"\"">>
      [] p.t = "bool" -> IF p.b THEN <<"T", "R", "U", "E">>
                         ELSE <<"F", "A", "L", "S", "E">>
      [] p.t = "int"  -> IntStr(p.i)
      [] OTHER        -> p.s

\* C13: a compiled literal is "" for None or the empty string, TRUE or
\* FALSE for a bool, the string in double quotes for any other string, and
\* the canonical text for any other value (5 for 5), after the "=" of a
\* master.
LiteralRendering ==
    \A n \in 1..Len(nodes) :
        (Rendered(n) /\ nodes[n].kind = "Argument" /\ ~nodes[n].value.tup) =>
            compiled = (IF is_master(nodes, n) THEN <<"=">> ELSE <<>>)
                       \o LiteralText(nodes[n].value.prim)

\* Every case of the literal text has been compiled: TRUE for a bool, ""
\* for None, 5 for an int, a quoted string.
LiteralsRendered ==
    \E n \in 1..Len(nodes) :
        /\ Rendered(n)
        /\ nodes[n].value = Raw(PBool(TRUE))
        /\ compiled = <<"=", "T", "R", "U", "E">>
        /\ \E m \in 1..Len(nodes) : nodes[m].value = Raw(PInt(5))

\* The root n is BlankIfBlank(ExcelReference("A1"), ExcelReference("B1")):
\* a formula call whose argument is IF(A1 == "", "", B1).
IsBlankIfBlankOfA1B1(h, n) ==
    /\ h[n].kind = "FormulaCall"
    /\ is_master(h, n)
    /\ Len(h[n].arguments) = 1
    /\ LET call == h[h[n].arguments[1]]
       IN  /\ call.kind = "FunctionCall"
           /\ call.caller.name = IF_.name
           /\ Len(call.arguments) = 3
           /\ h[call.arguments[1]].kind = "Expression"
           /\ h[call.arguments[1]].operator = "__eq__"
           /\ h[h[call.arguments[1]].former].value = Raw(PRef(A1))
           /\ h[h[call.arguments[1]].latter].value = Raw(PStr(<<>>))
           /\ h[call.arguments[2]].value = Raw(PStr(<<>>))
           /\ h[call.arguments[3]].value = Raw(PRef(B1))

\* C15 as stated: the root call of IF(A1 == "", "", B1) compiles to
\* =IF(A1="","",B1), with no space after a comma.
BlankIfBlankCompact ==
    \A n \in 1..Len(nodes) :
        (Rendered(n) /\ IsBlankIfBlankOfA1B1(nodes, n)) =>
            compiled = <<"=", "I", "F", "(", "A", "1", "=", "\"", "\"", ",",
                         "\"", "\"", ",", "B", "1", ")">>

\* C15: the root call of IF(A1 == "", "", B1) compiles to
\* =IF(A1="", "", B1): the arguments are joined with a comma and a space.
BlankIfBlankSpaced ==
    \A n \in 1..Len(nodes) :
        (Rendered(n) /\ IsBlankIfBlankOfA1B1(nodes, n)) =>
            compiled = <<"=", "I", "F", "(", "A", "1", "=", "\"", "\"", ",", " ",
                         "\"", "\"", ",", " ", "B", "1", ")">>

\* BlankIfBlank of A1 and B1 has been compiled.
BlankIfBlankRendered ==
    \E n \in 1..Len(nodes) :
        Rendered(n) /\ IsBlankIfBlankOfA1B1(nodes, n) /\ Len(compiled) = 18

\* C16: the arguments of a formula call are the nodes its formulate
\* returned, each owned by the call; its text is their texts one after the
\* other; and evaluating it gives one value for each of them, in order.
FormulaCallExpansion ==
    \A n \in 1..Len(nodes) :
        nodes[n].kind = "FormulaCall" =>
            LET args == nodes[n].arguments
            IN  /\ Len(args) = 1
                /\ nodes[args[1]].kind = "FunctionCall"
                /\ \A k \in 1..Len(args) : nodes[args[k]].owner = n
                /\ FormulaCallCompile(nodes, n).text =
                       Compile(nodes, args[1]).text
                /\ Evaluated(n) =>
                       /\ evaluated.raised = ""
                       /\ Len(evaluated.values) = Len(args)

\* The function an operator stands for, on two ints (on two strings for
\* "__and__").
Semantic(op, a, b) ==
    CASE op = "__lt__"  -> PBool(a.i < b.i)
      [] op = "__le__"  -> PBool(a.i <= b.i)
      [] op = "__eq__"  -> PBool(a.i = b.i)
      [] op = "__ne__"  -> PBool(a.i # b.i)
      [] op = "__gt__"  -> PBool(a.i > b.i)
      [] op = "__ge__"  -> PBool(a.i >= b.i)
      [] op = "__add__" -> PInt(a.i + b.i)
      [] op = "__sub__" -> PInt(a.i - b.i)
      [] op = "__mul__" -> PInt(a.i * b.i)
      [] op = "__pow__" -> PInt(Power(a.i, b.i))
      [] op = "__and__" -> PStr(a.s \o b.s)

\* C17: evaluating an expression gives the operator's function of the
\* values of its two operands: 3 for 1 + 2, true for 1 < 2, "ab" for
\* "a" & "b".
ExpressionEvaluates ==
    \A n \in 1..Len(nodes) :
        (Evaluated(n) /\ nodes[n].kind = "Expression") =>
            LET a  == nodes[nodes[n].former].value
                b  == nodes[nodes[n].latter].value
                op == nodes[n].operator
            IN  (/\ nodes[nodes[n].former].kind = "Argument"
                 /\ nodes[nodes[n].latter].kind = "Argument"
                 /\ \/ op = "__and__" /\ a.prim.t = "str" /\ b.prim.t = "str"
                    \/ op \notin {"__and__", "__div__"}
                       /\ a.prim.t = "int" /\ b.prim.t = "int") =>
                    /\ evaluated.raised = ""
                    /\ evaluated.value = Raw(Semantic(op, a.prim, b.prim))

\* C18: compiling or evaluating a node changes no node, and compiling a
\* node twice in a row returns the same text.
RenderAndEvaluateReadOnly ==
    [][result'.op \in {"compile", "get_value"} =>
           /\ nodes' = nodes
           /\ (result'.count = 2 => compiled' = compiled)]_vars

\* An owned operand of an expression has been compiled twice in a row,
\* after its expression was evaluated.
RenderedTwice ==
    \E n \in 1..Len(nodes) :
        /\ Rendered(n)
        /\ result.count = 2
        /\ ~is_master(nodes, n)
        /\ nodes[nodes[n].owner].kind = "Expression"

FormulaCalls(h) == {n \in 1..Len(h) : h[n].kind = "FormulaCall"}

\* C25: formulate runs once in every step that builds a formula call, after
\* the argument count was accepted and before the formula call is created
\* (the nodes it returned are older than the call), on the supplied
\* arguments in order; it does not run when the count is rejected, nor when
\* a node is compiled or evaluated.
FormulateOncePerCall ==
    [][IF FormulaCalls(nodes') # FormulaCalls(nodes)
       THEN LET call == Len(nodes')
            IN  /\ FormulaCalls(nodes') = FormulaCalls(nodes) \cup {call}
                /\ result'.op = "call" /\ result'.status = "ok"
                /\ result'.node = call
                /\ formulated' = formulated + 1
                /\ \A k \in 1..Len(nodes'[call].arguments) :
                       /\ nodes'[call].arguments[k] > Len(nodes)
                       /\ nodes'[call].arguments[k] < call
                /\ LET if   == nodes'[nodes'[call].arguments[1]]
                       test == nodes'[if.arguments[1]]
                       else == if.arguments[3]
                       Old(n) == n <= Len(nodes)
                   IN  /\ Old(test.former) \/ Raw(nodes'[test.former].value.prim)
                                                  \in ReferenceArguments(nodes)
                       /\ Old(else) \/ Raw(nodes'[else].value.prim)
                                           \in ElseArguments(nodes)
                       /\ ~Old(test.former) /\ ~Old(else) => test.former < else
                       /\ result'.count = 2
       ELSE /\ formulated' = formulated
            /\ result'.status # "ok" => nodes' = nodes]_vars

\* A formula call has been built, after a call with too few arguments was
\* rejected or not, and then evaluated.
FormulaCallEvaluated ==
    /\ formulated = 1
    /\ result.op = "get_value"
    /\ nodes[result.node].kind = "FormulaCall"

\* The texts joined with a comma and a space.
RECURSIVE CommaSpaced(_)
CommaSpaced(texts) ==
    IF texts = <<>> THEN <<>>
    ELSE IF Len(texts) = 1 THEN texts[1]
    ELSE texts[1] \o <<",", " ">> \o CommaSpaced(Tail(texts))

\* The call h[n] stores the supplied arguments coerced to nodes, in order: a
\* node is stored itself, a primitive as a new literal holding it.
StoresSupplied(old, h, n, args) ==
    /\ Len(h[n].arguments) = Len(args)
    /\ \A k \in 1..Len(args) :
           LET stored == h[n].arguments[k]
           IN  IF args[k].isnode THEN stored = args[k].node
               ELSE /\ stored > Len(old)
                    /\ h[stored].kind = "Argument"
                    /\ h[stored].value = args[k]
    /\ \A j, k \in 1..Len(args) :
           j < k /\ ~args[j].isnode /\ ~args[k].isnode =>
               h[n].arguments[j] < h[n].arguments[k]

\* C27: a function call stores exactly the supplied arguments, coerced to
\* nodes, in the order supplied, and its inner text is its name, "(", the
\* texts of its arguments joined with ", ", and ")"; with no argument it is
\* NAME().  The text of a root call is "=" and the inner text.
FunctionCallStoredAndRendered ==
    [][/\ result'.op = "call" /\ result'.status = "ok" =>
              \A c \in FunctionClasses :
                  c.name = result'.caller =>
                      \A args \in Tuples(FunctionArguments(nodes), result'.count) :
                          Call(c, args) =>
                              /\ nodes'[result'.node].kind = "FunctionCall"
                              /\ StoresSupplied(nodes, nodes', result'.node, args)
       /\ result'.op = "compile" /\ nodes'[result'.node].kind = "FunctionCall" =>
              LET call  == nodes'[result'.node]
                  texts == [k \in 1..Len(call.arguments) |->
                               Compile(nodes', call.arguments[k]).text]
                  inner == call.caller.name \o <<"(">> \o CommaSpaced(texts)
                               \o <<")">>
              IN  /\ compiled' = IF call.owner = 0 THEN <<"=">> \o inner
                                 ELSE inner
                  /\ call.arguments = <<>> =>
                         inner = call.caller.name \o <<"(", ")">>]_vars

\* IF(x, y) of two different arguments has been compiled, and a call without
\* arguments has been built.
FunctionCallCompiled ==
    /\ result.op = "compile"
    /\ nodes[result.node].kind = "FunctionCall"
    /\ Len(nodes[result.node].arguments) = 2
    /\ nodes[nodes[result.node].arguments[1]].value
           # nodes[nodes[result.node].arguments[2]].value
    /\ \E n \in 1..Len(nodes) :
           nodes[n].kind = "FunctionCall" /\ nodes[n].arguments = <<>>

\* The display symbol of each operator.
Symbol ==
    [op \in OperatorNames |->
        CASE op = "__lt__"  -> <<"<">>
          [] op = "__le__"  -> <<"<", "=">>
          [] op = "__eq__"  -> <<"=">>
          [] op = "__ne__"  -> <<"<", ">">>
          [] op = "__gt__"  -> <<">">>
          [] op = "__ge__"  -> <<">", "=">>
          [] op = "__add__" -> <<"+">>
          [] op = "__sub__" -> <<"-">>
          [] op = "__mul__" -> <<"*">>
          [] op = "__div__" -> <<"/">>
          [] op = "__pow__" -> <<"^">>
          [] op = "__and__" -> <<"&">>]

\* The inner text of a node made of literals 1 and "b" and of expressions:
\* no space and no parenthesis is added.
RECURSIVE InnerText(_, _)
InnerText(h, n) ==
    IF h[n].kind = "Expression"
    THEN InnerText(h, h[n].former) \o Symbol[h[n].operator]
             \o InnerText(h, h[n].latter)
    ELSE LiteralText(h[n].value.prim)

\* C28: the inner text of an expression is the text of its left operand,
\* the display symbol of its operator and the text of its right operand,
\* with no space and no parentheses added; on a root it follows "=", which
\* stands outside the parentheses of a priority.
ExpressionRendering ==
    \A n \in 1..Len(nodes) :
        Rendered(n) /\ nodes[n].kind = "Expression" =>
            LET inner == Compile(nodes, nodes[n].former).text
                             \o Symbol[nodes[n].operator]
                             \o Compile(nodes, nodes[n].latter).text
                grouped == IF has_priority(nodes, n)
                           THEN <<"(">> \o inner \o <<")">> ELSE inner
            IN  /\ compiled = IF is_master(nodes, n) THEN <<"=">> \o grouped
                              ELSE grouped
                /\ inner = InnerText(nodes, n)

\* A root expression whose left operand is an expression has been compiled.
NestedExpressionRendered ==
    \E n \in 1..Len(nodes) :
        /\ Rendered(n)
        /\ nodes[n].kind = "Expression"
        /\ is_master(nodes, n)
        /\ nodes[nodes[n].former].kind = "Expression"
        /\ nodes[nodes[n].former].operator = "__le__"
        /\ nodes[n].operator = "__div__"

\* C19: an object that is no string, number, bool, None or node is not made
\* into a node when it is passed as an operand or an argument.
UnknownObjectRejected ==
    \A n \in 1..Len(nodes) :
        nodes[n].kind = "Argument" => nodes[n].value.prim.t # "object"

-----------------------------------------------------------------------------
(* Properties of inherited arguments (SpecInherit).                        *)

\* The entries a class statement declares itself.
OwnEntries(declaration) ==
    IF declaration = Undeclared THEN <<>> ELSE _funcargs_to_tuple(declaration)

\* The parent of the k-th class of the chain.
ParentOf(k) == IF k = 1 THEN ExcelFunctionBase ELSE classes[k - 1]

\* C24: the required and the optional arguments of a class that inherits are
\* those of its parent followed by the entries it declares itself, each
\* once; when it declares none they are those of its parent.
InheritedThenOwn ==
    \A k \in 1..Len(classes) :
        classes[k].inherit = "True" =>
            /\ classes[k].class.required =
                   ParentOf(k).class.required
                   \o OwnEntries(classes[k].namespace.required)
            /\ classes[k].class.optional =
                   ParentOf(k).class.optional
                   \o OwnEntries(classes[k].namespace.optional)

-----------------------------------------------------------------------------
(* Properties of building a cell (SpecCell).                               *)

\* A positive int, or a non-empty string of letters.
ValidColumn(col) ==
    \/ col.t = "int" /\ col.i >= 1
    \/ col.t = "str" /\ col.s # <<>> /\ Range(col.s) \subseteq AsciiLetters

\* C21: building a cell returns a text exactly when the column is a
\* positive int or a string of letters, and raises for every other column
\* (0, a negative int, an empty or non-alphabetic string, None).
ColumnChecked ==
    built.done => (built.raised = "" <=> ValidColumn(built.p.col))

-----------------------------------------------------------------------------
(* Properties of references (SpecReference).                               *)

BuiltText == built.done /\ built.raised = ""

\* The parameters of the example in ExcelRangeReference.__doc__.
Book1Reference ==
    [row |-> PInt(1), col |-> PInt(1), ref |-> ABS_REF, sheet |-> PStr(Sheet1),
     workbook |-> PStr(Book1), r_row |-> PInt(2), r_col |-> PInt(1),
     r_ref |-> PInt(REL_REF)]

\* C11: the built text is the workbook qualifier [workbook] if present, then
\* the sheet qualifier 'sheet'! if present, then the cell or range text; for
\* anchor (1, 1, ABS_REF), opposite (2, 1, REL_REF), sheet Sheet1 and workbook
\* Book1.xlsx it is exactly [Book1.xlsx]'Sheet1'!$A$1:A2.
BuiltQualifiedRange ==
    BuiltText =>
        LET p == built.p
            range == _build_reference_string(p.row, p.col, p.ref, PNone, PNone,
                                             p.r_row, p.r_col, p.r_ref)
        IN  /\ built.text =
                   (IF p.workbook = PNone THEN <<>>
                    ELSE <<"[">> \o p.workbook.s \o <<"]">>)
                   \o (IF p.sheet = PNone THEN <<>>
                       ELSE <<"'">> \o p.sheet.s \o <<"'", "!">>)
                   \o range.text
            /\ p = Book1Reference =>
                   built.text = Qualified(Book1, Sheet1, <<"$", "A", "$", "1">>,
                                          <<"A", "2">>)

\* The cell text the documentation describes: column letters then row
\* number, each with "$" in front when the reference type makes it absolute.
CellText(row, col, ref) ==
    (IF ref \in {ABS_REF, ABS_COL} THEN <<"$">> ELSE <<>>)
    \o _alpha_column(col)
    \o (IF row = 0 THEN <<>>
        ELSE (IF ref \in {ABS_REF, ABS_ROW} THEN <<"$">> ELSE <<>>) \o IntStr(row))

\* C12: parsing a fully qualified reference [workbook]'sheet'!anchor:opposite
\* returns the workbook name, the sheet name and the two cells, and each
\* cell splits into its column token and its row token, for every workbook
\* and sheet name of length >= 1.
ParsedIsInverse ==
    parsed.done =>
        \A w \in WorkbookNames, n \in SheetNames, a \in CellStrings, o \in CellStrings :
            parsed.string = Qualified(w, n, a, o) =>
                /\ parsed.workbook = Returned(w)
                /\ parsed.sheet = Returned(n)
                /\ parsed.range = [raised |-> "", cells |-> <<a, o>>]
                /\ Len(parsed.cells) = 2
                /\ \A k \in 1..2 :
                       /\ Len(parsed.cells[k]) = 2
                       /\ parsed.cells[k][1] \o parsed.cells[k][2] = <<a, o>>[k]
                       /\ parsed.cells[k][1][Len(parsed.cells[k][1])] \in AsciiLetters
                /\ (a = <<"$", "A", "$", "1">> /\ o = <<"A", "2">>) =>
                       parsed.cells = <<<<(<<"$", "A">>), (<<"$", "1">>)>>,
                                        <<(<<"A">>), (<<"2">>)>>>>

\* C20: for every (row, column, kind) with column >= 1 the built cell text
\* is the column text followed by the row text: the column letters with "$"
\* in front exactly for ABS_REF and ABS_COL, and nothing for row 0, else the
\* row number with "$" in front exactly for ABS_REF and ABS_ROW.
BuiltCellText ==
    (/\ BuiltText
     /\ built.p.workbook = PNone /\ built.p.sheet = PNone
     /\ built.p.r_row = PNone /\ built.p.r_col = PNone) =>
        built.text = CellText(built.p.row.i, built.p.col.i, built.p.ref)

\* The workbook and sheet qualifiers in front of a built text.
Qualifiers(p) ==
    (IF p.workbook = PNone THEN <<>> ELSE <<"[">> \o p.workbook.s \o <<"]">>)
    \o (IF p.sheet = PNone THEN <<>> ELSE <<"'">> \o p.sheet.s \o <<"'", "!">>)

\* C22: when a second cell (r_row, r_col) is given, with or without its
\* reference type, the built text is the text of the anchor cell, ":", and
\* the text of the second cell (relative when no type is given); when none
\* is given the text is the anchor cell alone and holds no ":".
RangeJoinedWithColon ==
    built.done =>
        LET p      == built.p
            anchor == _build_single_cell_string(p.row, p.col, p.ref).text
            second == _build_single_cell_string(p.r_row, p.r_col,
                          IF p.r_ref = PNone THEN REL_REF ELSE p.r_ref.i).text
        IN  /\ (p.r_row # PNone /\ p.r_col # PNone) =>
                   /\ built.raised = ""
                   /\ built.text = Qualifiers(p) \o anchor \o <<":">> \o second
            /\ (p.r_row = PNone /\ p.r_col = PNone) =>
                   /\ built.raised = ""
                   /\ built.text = Qualifiers(p) \o anchor
                   /\ ":" \notin Range(built.text)

\* C23: the workbook and the sheet qualifier are optional when parsing:
\* the range and the two tokens of each of its cells are returned for a
\* reference string with or without them (A1, $A$1:A2, 'Sheet1'!A1).
RangeParsedWithoutQualifiers ==
    (parsed.done /\ ~built.done) =>
        \A c \in ParseCases :
            parsed.string = Address(c) =>
                /\ parsed.range =
                       [raised |-> "",
                        cells  |-> IF c.opposite = <<>> THEN <<c.anchor>>
                                   ELSE <<c.anchor, c.opposite>>]
                /\ \A k \in 1..Len(parsed.cells) : Len(parsed.cells[k]) = 2

=============================================================================
